---- MODULE Spec2Model ----
(***************************************************************************)
(* The /stream handler of the chat server (src/unnamed/part_001, lines     *)
(* 96-280): the relay of the backend's newline-delimited JSON stream to    *)
(* the server-sent-event channel, the word-group chunking for speech and   *)
(* the persistence of the assembled reply.                                 *)
(*                                                                         *)
(* Text is a sequence of one-character strings.  A backend record          *)
(*      {"response":"a b ","done":true}                                    *)
(* is written  { a _ b _ D }  : the characters between the braces are the  *)
(* characters of the response string, and a final D is the done flag.      *)
(* JSON.parse accepts exactly the lines of that shape.                     *)
(***************************************************************************)
EXTENDS Integers, Sequences, FiniteSets, TLC

VARIABLES
    pc,            \* position of the handler
    stream,        \* the bytes of the backend's response body
    pos,           \* how many of them have been delivered in chunks
    buffer,        \* let buffer          (line 182)
    parts,         \* the parts of the current chunk still to be looped over
    fullReply,     \* let fullReply       (line 183)
    speechBuffer,  \* let speechBuffer    (line 186)
    chan,          \* the res.write calls made, in order, each with its outcome
    db,            \* the Message.create calls made, in order, each with its outcome
    closed,        \* res.end() has been called
    chanState,     \* "ok", or how a write fails once the client is gone
    nrec,          \* number of records (non-empty lines) handled so far
    yielded,       \* every part the split has yielded so far (history)
    doneSeen,      \* a done record has been acted on (history)
    prompt,        \* req.body.prompt
    cause,         \* what threw to the outer catch, "none" if nothing (history)
    eof,           \* the end of the body has been handled (history)
    flushed        \* the speech buffer was flushed and has absorbed nothing since
                   \* (history)

\* the state of one run of the handler
sessionVars ==
    <<pc, stream, pos, buffer, parts, fullReply, speechBuffer, chan, db,
      closed, chanState, nrec, yielded, doneSeen, prompt, cause, eof, flushed>>

\* the location cache and the calls of getWeatherTimeCity
VARIABLES
    clock,          \* Date.now(), in milliseconds
    locationCache,  \* const locationCache = new Map()   (line 31)
    calls,          \* the calls of getWeatherTimeCity: where each one is, the
                    \* key and the now it took, what it found and returned
    advances        \* how many times the clock has advanced

cacheVars == <<clock, locationCache, calls, advances>>

\* two runs of the handler in progress at once
VARIABLES
    cells,          \* the bindings of buffer, fullReply and speechBuffer
                    \* (lines 182, 183, 186) that exist, each with its values
    ses,            \* of each run: where it is, its backend body, how much of
                    \* it has arrived, and the res.write calls it has made
    store           \* the Message.create calls for assistant messages, in order

pairVars == <<cells, ses, store>>

vars == <<sessionVars, cacheVars, pairVars>>

-----------------------------------------------------------------------------
(* Bounds *)

MaxRecords == 3      \* complete records of a session stream
MaxWordRecords == 3  \* complete records of a word-rich stream
MaxRawLen == 5       \* bytes of a raw decoder stream

-----------------------------------------------------------------------------
(* Characters *)

NL == "\n"
CR == "\r"
SP == " "
LB == "{"
RB == "}"
DONE == "D"

Letters == {"a", "b", "c", "d", "e", "f", "g", "h", "i", "j"}

IsSpace(c) == c \in {SP, NL, CR}

-----------------------------------------------------------------------------
(* String functions of the handler *)

\* String.prototype.split(/\r?\n/): the segments between line terminators,
\* at least one segment, the last one being what follows the last terminator.
RECURSIVE SplitAcc(_, _, _, _)
SplitAcc(s, i, cur, acc) ==
    IF i > Len(s) THEN Append(acc, cur)
    ELSE IF s[i] = CR /\ i + 1 <= Len(s) /\ s[i + 1] = NL
         THEN SplitAcc(s, i + 2, <<>>, Append(acc, cur))
    ELSE IF s[i] = NL
         THEN SplitAcc(s, i + 1, <<>>, Append(acc, cur))
    ELSE SplitAcc(s, i + 1, Append(cur, s[i]), acc)

SplitLines(s) == SplitAcc(s, 1, <<>>, <<>>)

\* the split applied to the chunk alone, the held-back buffer forgotten
DecodeChunkOnly(buf, chunk) ==
    LET segs == SplitLines(chunk)
    IN  [parts  |-> SubSeq(segs, 1, Len(segs) - 1),
         buffer |-> segs[Len(segs)]]

\* buffer += chunkText; parts = buffer.split(/\r?\n/); buffer = parts.pop()
Decode(buf, chunk) ==
    LET segs == SplitLines(buf \o chunk)
    IN  [parts  |-> SubSeq(segs, 1, Len(segs) - 1),
         buffer |-> segs[Len(segs)]]

\* String.prototype.trim
RECURSIVE TrimLeft(_)
TrimLeft(s) ==
    IF s # <<>> /\ IsSpace(Head(s)) THEN TrimLeft(Tail(s)) ELSE s

RECURSIVE TrimRight(_)
TrimRight(s) ==
    IF s # <<>> /\ IsSpace(s[Len(s)])
    THEN TrimRight(SubSeq(s, 1, Len(s) - 1)) ELSE s

Trim(s) == TrimRight(TrimLeft(s))

\* s.replace(/\s+/g, ' ').trim().split(' ').filter(Boolean): the words of s
RECURSIVE WordsAcc(_, _, _, _)
WordsAcc(s, i, cur, acc) ==
    IF i > Len(s) THEN (IF cur = <<>> THEN acc ELSE Append(acc, cur))
    ELSE IF IsSpace(s[i])
         THEN WordsAcc(s, i + 1, <<>>, IF cur = <<>> THEN acc ELSE Append(acc, cur))
    ELSE WordsAcc(s, i + 1, Append(cur, s[i]), acc)

Words(s) == WordsAcc(s, 1, <<>>, <<>>)

\* Array.prototype.join(' ')
RECURSIVE Join(_)
Join(ws) ==
    IF ws = <<>> THEN <<>>
    ELSE IF Len(ws) = 1 THEN ws[1]
    ELSE ws[1] \o <<SP>> \o Join(Tail(ws))

\* JSON.parse(line) of a record: FALSE for ok when it throws.
\* The text parses when, its surrounding white space aside, it is
\* { response-characters [D] } ; anything else throws.
Parse(text) ==
    LET t    == Trim(text)
        n    == Len(t)
        mid  == IF n >= 2 THEN SubSeq(t, 2, n - 1) ELSE <<>>
        m    == Len(mid)
        dn   == m >= 1 /\ mid[m] = DONE
        resp == IF dn THEN SubSeq(mid, 1, m - 1) ELSE mid
        ok   == /\ n >= 2
                /\ t[1] = LB
                /\ t[n] = RB
                /\ \A i \in 1..Len(resp) : resp[i] \in Letters \cup {SP}
    IN  [ok |-> ok, response |-> IF ok THEN resp ELSE <<>>, done |-> ok /\ dn]

\* speechBuffer += text; words = ...; while (words.length >= WORDS_THRESHOLD)
\* { chunkWords = words.splice(0, T); speechBuffer = words.join(' '); emit }
WORDS_THRESHOLD == 8

\* the text is not added to the speech buffer at all
AbsorbNothing(sb, text) == [groups |-> <<>>, buffer |-> sb]

Absorb(sb, text) ==
    LET sb0   == sb \o text
        words == Words(sb0)
        ng    == Len(words) \div WORDS_THRESHOLD
    IN  [groups |-> [k \in 1..ng |->
                       Join(SubSeq(words, (k - 1) * WORDS_THRESHOLD + 1,
                                          k * WORDS_THRESHOLD))],
         buffer |-> IF ng = 0 THEN sb0
                    ELSE Join(SubSeq(words, ng * WORDS_THRESHOLD + 1, Len(words)))]

\* the leftover emitted whether or not it is empty
FlushAlways(sb) == [groups |-> <<Trim(sb)>>, buffer |-> <<>>]

\* the leftover emitted and the buffer left as it was
FlushKeeps(sb) ==
    LET leftover == Trim(sb)
    IN  [groups |-> IF leftover # <<>> THEN <<leftover>> ELSE <<>>,
         buffer |-> sb]

\* leftover = (speechBuffer || '').trim(); if (leftover) { emit; speechBuffer = '' }
Flush(sb) ==
    LET leftover == Trim(sb)
    IN  [groups |-> IF leftover # <<>> THEN <<leftover>> ELSE <<>>,
         buffer |-> IF leftover # <<>> THEN <<>> ELSE sb]

-----------------------------------------------------------------------------
(* The output channel and the message store *)

\* One res.write call: the event, whether the client got it, and the record
\* (counted from 1) being handled when it was made.
Event(kind, text, rec) ==
    [kind |-> kind, text |-> text, ok |-> chanState = "ok", rec |-> rec]

RECURSIVE Partials(_, _)
Partials(groups, rec) ==
    IF groups = <<>> THEN <<>>
    ELSE <<Event("sentence_partial", Head(groups), rec)>> \o Partials(Tail(groups), rec)

\* Message.create({text, role}): the schema requires a non-empty text, so the
\* call rejects on an empty one; it may also reject because the store fails.
CreateOutcomes(text) == IF text = <<>> THEN {FALSE} ELSE {TRUE, FALSE}

Stored(role, text, ok) == [role |-> role, text |-> text, ok |-> ok]

-----------------------------------------------------------------------------
(* The backend's response bodies *)

Rec(resp, dn) == <<LB>> \o resp \o (IF dn THEN <<DONE>> ELSE <<>>) \o <<RB>>

RECURSIVE Concat(_)
Concat(ss) == IF ss = <<>> THEN <<>> ELSE Head(ss) \o Concat(Tail(ss))

SeqsUpTo(S, n) == UNION {[1..k -> S] : k \in 0..n}

\* short records of every kind: a token ended by \r\n, done, token and done
\* together, a line that does not parse; and what may follow the last \n
SessionLines ==
    { Rec(<<"a", SP>>, FALSE) \o <<CR, NL>>,
      Rec(<<>>, TRUE) \o <<NL>>,
      Rec(<<"c">>, TRUE) \o <<NL>>,
      <<RB, NL>> }

SessionTails == { <<>>, Rec(<<"b">>, FALSE) }

SessionStreams ==
    { Concat(ls) \o t : ls \in SeqsUpTo(SessionLines, MaxRecords), t \in SessionTails }

\* records whose texts hold enough words to fill word groups
WordLines ==
    { Rec(<<"a", SP, "b", SP, "c", SP, "d", SP, "e", SP>>, FALSE) \o <<NL>>,
      Rec(<<"f">>, TRUE) \o <<NL>> }

WordTails == { <<>>, Rec(<<SP, "g", SP, "h", SP, "i", SP, "j">>, FALSE) }

WordStreams ==
    { Concat(ls) \o t : ls \in SeqsUpTo(WordLines, MaxWordRecords), t \in WordTails }

\* any bytes at all: text, \r and \n in every arrangement (none of these
\* lines parses, and an unterminated rest does not parse either)
RawStreams == SeqsUpTo({"a", CR, NL}, MaxRawLen)

Streams == SessionStreams \cup WordStreams \cup RawStreams

Prompts == { <<>>, <<SP>>, <<"a">> }

-----------------------------------------------------------------------------
(* getWeatherTimeCity and its cache *)

MaxAdvances == 3     \* advances of the clock

STALE_MS == 5 * 60 * 1000

\* the coordinate pairs looked up, as the keys `${lat},${lon}`
Keys == {"1,2", "3,4"}

\* the calls that may be in progress at once
Callers == {1, 2}

\* how far the clock moves between two events
ClockSteps == {1, STALE_MS - 1}

\* locationCache.has(key) is false
NoEntry == [lastUpdated |-> -1]

Idle == [st |-> "idle", key |-> "", now |-> 0, seen |-> NoEntry,
         kind |-> "none", out |-> NoEntry]

\* the entry is used up to and including the instant it is 5 minutes old
IsFreshInclusive(cached, now) ==
    cached # NoEntry /\ now - cached.lastUpdated <= STALE_MS

\* line 38-40: locationCache.has(key) && now - cached.lastUpdated < 5 * 60 * 1000
IsFresh(cached, now) ==
    cached # NoEntry /\ now - cached.lastUpdated < STALE_MS

CacheInit ==
    /\ clock = 0
    /\ locationCache = [k \in Keys |-> NoEntry]
    /\ calls = [c \in Callers |-> Idle]
    /\ advances = 0

\* time passes
ClockAdvance ==
    /\ advances < MaxAdvances
    /\ \E d \in ClockSteps : clock' = clock + d
    /\ advances' = advances + 1
    /\ UNCHANGED <<locationCache, calls, sessionVars, pairVars>>

\* lines 34-41: a call takes its key and the time, and returns the cached
\* entry when there is one that is fresh
LookupCached(c, k) ==
    /\ calls[c].st # "fetching"
    /\ IsFresh(locationCache[k], clock)
    /\ calls' = [calls EXCEPT ![c] =
                   [st |-> "returned", key |-> k, now |-> clock,
                    seen |-> locationCache[k],
                    kind |-> "cached", out |-> locationCache[k]]]
    /\ UNCHANGED <<clock, locationCache, advances, sessionVars, pairVars>>

\* lines 34-45: no fresh entry, the call goes to the weather service and
\* awaits the answer
LookupFetch(c, k) ==
    /\ calls[c].st # "fetching"
    /\ ~IsFresh(locationCache[k], clock)
    /\ calls' = [calls EXCEPT ![c] =
                   [st |-> "fetching", key |-> k, now |-> clock,
                    seen |-> locationCache[k],
                    kind |-> "none", out |-> NoEntry]]
    /\ UNCHANGED <<clock, locationCache, advances, sessionVars, pairVars>>

\* lines 58-60: result = { ..., lastUpdated: now }; locationCache.set(key, result)
LookupSet(c) ==
    /\ calls[c].st = "fetching"
    /\ LET result == [lastUpdated |-> calls[c].now]
       IN  /\ locationCache' = [locationCache EXCEPT ![calls[c].key] = result]
           /\ calls' = [calls EXCEPT ![c].st = "returned",
                                     ![c].kind = "fresh",
                                     ![c].out = result]
    /\ UNCHANGED <<clock, advances, sessionVars, pairVars>>

\* lines 61-64: a fetch failed; a default is returned and nothing is cached
LookupFail(c) ==
    /\ calls[c].st = "fetching"
    /\ calls' = [calls EXCEPT ![c].st = "returned",
                              ![c].kind = "default",
                              ![c].out = [lastUpdated |-> calls[c].now]]
    /\ UNCHANGED <<clock, locationCache, advances, sessionVars, pairVars>>

-----------------------------------------------------------------------------
(* Two sessions at once *)

Sessions == {1, 2}

\* the bodies the backend may send to a session
PairStreams ==
    { Rec(<<"a", SP>>, FALSE) \o <<CR, NL>> \o Rec(<<"b">>, FALSE),
      Rec(<<"c">>, TRUE) \o <<NL>>,
      <<RB, NL>> \o Rec(<<"a", SP>>, FALSE) \o <<NL>> }

\* let buffer = ''; let fullReply = ''; let speechBuffer = '';
NewCell == [buffer |-> <<>>, fullReply |-> <<>>, speechBuffer |-> <<>>]

\* the three variables declared once, outside the handler: every run uses the
\* same bindings
ScopeModule(s) == 1

\* lines 180-186: the three variables are declared with let inside the
\* handler, so every run of it has bindings of its own
Scope(s) == s

PEvent(kind, text) == [kind |-> kind, text |-> text]

PPartials(groups) ==
    [i \in DOMAIN groups |-> PEvent("sentence_partial", groups[i])]

\* lines 197-235 for a client that is there and a store that works: one part
\* is trimmed, parsed and acted on; stop says that its reply has been given to
\* Message.create (a done record with an empty fullReply is rejected by the
\* schema, and the loop goes on)
HandleRecord(c, part) ==
    LET p   == Parse(Trim(part))
        tok == p.ok /\ p.response # <<>>
        a   == Absorb(c.speechBuffer, p.response)
        fr  == IF tok THEN c.fullReply \o p.response ELSE c.fullReply
        sb1 == IF tok THEN a.buffer ELSE c.speechBuffer
        ev1 == IF tok
               THEN <<PEvent("token", p.response)>> \o PPartials(a.groups)
               ELSE <<>>
        f   == Flush(sb1)
    IN  [cell   |-> [c EXCEPT !.fullReply = fr,
                              !.speechBuffer = IF p.done THEN f.buffer ELSE sb1],
         events |-> IF p.done THEN ev1 \o PPartials(f.groups) ELSE ev1,
         stop   |-> p.done /\ fr # <<>>]

\* line 196: for (const part of parts), left by the return of the done branch
RECURSIVE HandleParts(_, _, _)
HandleParts(c, evs, ps) ==
    IF ps = <<>> THEN [cell |-> c, events |-> evs, done |-> FALSE]
    ELSE LET h == HandleRecord(c, Head(ps))
         IN  IF h.stop
             THEN [cell |-> h.cell, events |-> evs \o h.events, done |-> TRUE]
             ELSE HandleParts(h.cell, evs \o h.events, Tail(ps))

\* lines 189-195 and the loop: a chunk is added to the buffer, split, and its
\* parts handled
HandleChunk(c, chunk) ==
    LET d == Decode(c.buffer, chunk)
    IN  HandleParts([c EXCEPT !.buffer = d.buffer], <<>>, d.parts)

\* lines 243-267: the unterminated rest is parsed and the speech buffer flushed
HandleEnd(c) ==
    LET p   == Parse(c.buffer)
        tok == c.buffer # <<>> /\ p.ok /\ p.response # <<>>
        fr  == IF tok THEN c.fullReply \o p.response ELSE c.fullReply
        sb1 == IF tok THEN c.speechBuffer \o p.response ELSE c.speechBuffer
        f   == Flush(sb1)
    IN  [cell   |-> [c EXCEPT !.fullReply = fr, !.speechBuffer = f.buffer],
         events |-> (IF tok THEN <<PEvent("token", p.response)>> ELSE <<>>)
                        \o PPartials(f.groups)]

PairInit ==
    /\ cells = [i \in Sessions |-> NewCell]
    /\ ses = [s \in Sessions |->
                [pc |-> "fetch", stream |-> <<>>, pos |-> 0, chan |-> <<>>]]
    /\ store = <<>>

\* lines 167-186: the backend answers, and the run declares its variables
PairFetch(s) ==
    /\ ses[s].pc = "fetch"
    /\ \E b \in PairStreams :
         ses' = [ses EXCEPT ![s].pc = "read", ![s].stream = b]
    /\ UNCHANGED <<cells, store, sessionVars, cacheVars>>

\* lines 189-232: a chunk of a run's body arrives and is handled, up to the
\* call of Message.create when a done record is in it
PairChunk(s) ==
    /\ ses[s].pc = "read"
    /\ ses[s].pos < Len(ses[s].stream)
    /\ \E k \in 1..(Len(ses[s].stream) - ses[s].pos) :
         \E r \in {HandleChunk(cells[Scope(s)],
                              SubSeq(ses[s].stream, ses[s].pos + 1, ses[s].pos + k))} :
             /\ cells' = [cells EXCEPT ![Scope(s)] = r.cell]
             /\ ses' = [ses EXCEPT ![s].pos = ses[s].pos + k,
                                   ![s].chan = ses[s].chan \o r.events,
                                   ![s].pc = IF r.done THEN "doneCreate" ELSE "read"]
             /\ store' = IF r.done
                         THEN Append(store, [session |-> s, text |-> r.cell.fullReply])
                         ELSE store
    /\ UNCHANGED <<sessionVars, cacheVars>>

\* lines 243-271: the body has ended; the rest is handled and the reply, if
\* there is one, given to Message.create
PairEnd(s) ==
    /\ ses[s].pc = "read"
    /\ ses[s].pos = Len(ses[s].stream)
    /\ \E r \in {HandleEnd(cells[Scope(s)])} :
           /\ cells' = [cells EXCEPT ![Scope(s)] = r.cell]
           /\ ses' = [ses EXCEPT ![s].chan = ses[s].chan \o r.events,
                                 ![s].pc = IF r.cell.fullReply # <<>>
                                           THEN "fallbackCreate" ELSE "returned"]
           /\ store' = IF r.cell.fullReply # <<>>
                       THEN Append(store, [session |-> s, text |-> r.cell.fullReply])
                       ELSE store
    /\ UNCHANGED <<sessionVars, cacheVars>>

\* lines 232-234 and 271-273: Message.create resolves; after a done record the
\* done event is written; res.end()
PairSaved(s) ==
    /\ ses[s].pc \in {"doneCreate", "fallbackCreate"}
    /\ ses' = [ses EXCEPT ![s].pc = "returned",
                          ![s].chan = IF ses[s].pc = "doneCreate"
                                      THEN Append(ses[s].chan, PEvent("done", <<>>))
                                      ELSE ses[s].chan]
    /\ UNCHANGED <<cells, store, sessionVars, cacheVars>>

-----------------------------------------------------------------------------
(* The handler *)

Init ==
    /\ pc = "start"
    /\ prompt \in Prompts
    /\ stream = <<>>
    /\ pos = 0
    /\ buffer = <<>>
    /\ parts = <<>>
    /\ fullReply = <<>>
    /\ speechBuffer = <<>>
    /\ chan = <<>>
    /\ db = <<>>
    /\ closed = FALSE
    /\ chanState = "ok"
    /\ nrec = 0
    /\ yielded = <<>>
    /\ doneSeen = FALSE
    /\ cause = "none"
    /\ eof = FALSE
    /\ flushed = FALSE
    /\ CacheInit
    /\ PairInit

\* where the for loop over the parts goes next: the next part, or the next chunk
AfterPart(rest) == IF rest = <<>> THEN "read" ELSE "loop"

\* the inner catch left without the continue: what it caught goes on to the
\* outer catch
InnerCatchRethrows(rest) == "catch"

\* lines 236-239: the inner catch logs what was thrown while a part was
\* handled, and the for loop goes on with the next part
InnerCatch(rest) == AfterPart(rest)

\* lines 104-108: the empty-prompt guard, outside the try
Start ==
    /\ pc = "start"
    /\ IF Trim(prompt) = <<>>
       THEN /\ chan' = Append(chan, Event("error", <<>>, 0))
            /\ IF chanState = "throws"
               THEN pc' = "rejected" /\ closed' = closed
               ELSE pc' = "returned" /\ closed' = TRUE
       ELSE /\ pc' = "saveUser"
            /\ UNCHANGED <<chan, closed>>
    /\ UNCHANGED <<stream, pos, buffer, parts, fullReply, speechBuffer, db,
                   chanState, nrec, yielded, doneSeen, prompt, cause, eof, flushed,
                   cacheVars, pairVars>>

\* line 124: await Message.create({ text: trimmed, role: 'user' })
SaveUser ==
    /\ pc = "saveUser"
    /\ \E ok \in CreateOutcomes(Trim(prompt)) :
         /\ db' = Append(db, Stored("user", Trim(prompt), ok))
         /\ pc' = IF ok THEN "context" ELSE "catch"
         /\ cause' = IF ok THEN cause ELSE "user-save"
    /\ UNCHANGED <<stream, pos, buffer, parts, fullReply, speechBuffer, chan,
                   closed, chanState, nrec, yielded, doneSeen, prompt, eof, flushed,
                   cacheVars, pairVars>>

\* lines 127-150: the reads of the stores and the location lookup; a rejected
\* read throws to the outer catch
BuildContext ==
    /\ pc = "context"
    /\ \/ pc' = "fetch" /\ cause' = cause
       \/ pc' = "catch" /\ cause' = "context"
    /\ UNCHANGED <<stream, pos, buffer, parts, fullReply, speechBuffer, chan, db,
                   closed, chanState, nrec, yielded, doneSeen, prompt, eof, flushed,
                   cacheVars, pairVars>>

\* lines 168-178: the request to the backend.  A refused connection and a
\* non-success status both throw; otherwise the backend answers with a body
Fetch ==
    /\ pc = "fetch"
    /\ \/ /\ stream' \in Streams
          /\ pc' = "read"
          /\ cause' = cause
       \/ /\ stream' = stream
          /\ pc' = "catch"
          /\ cause' = "fetch"
    /\ UNCHANGED <<pos, buffer, parts, fullReply, speechBuffer, chan, db,
                   closed, chanState, nrec, yielded, doneSeen, prompt, eof, flushed,
                   cacheVars, pairVars>>

\* lines 189-195: the next chunk of the body arrives, of any size
ReadChunk ==
    /\ pc = "read"
    /\ pos < Len(stream)
    /\ \E k \in 1..(Len(stream) - pos) :
         LET d == Decode(buffer, SubSeq(stream, pos + 1, pos + k))
         IN  /\ pos' = pos + k
             /\ buffer' = d.buffer
             /\ parts' = d.parts
             /\ yielded' = yielded \o d.parts
             /\ pc' = AfterPart(d.parts)
    /\ UNCHANGED <<stream, fullReply, speechBuffer, chan, db, closed, chanState,
                   nrec, doneSeen, prompt, cause, eof, flushed,
                   cacheVars, pairVars>>

\* line 189: the iteration of response.body throws
ReadError ==
    /\ pc = "read"
    /\ pc' = "catch"
    /\ cause' = "read"
    /\ UNCHANGED <<stream, pos, buffer, parts, fullReply, speechBuffer, chan, db,
                   closed, chanState, nrec, yielded, doneSeen, prompt, eof, flushed,
                   cacheVars, pairVars>>

\* lines 196-235, one turn of the for loop: a part is trimmed, skipped when
\* empty, parsed; the token branch (202-222) and the done branch up to the
\* await of Message.create (223-232).  Whatever throws inside lands in the
\* inner catch (236-239), which logs and goes on with the next part.
ProcessPart ==
    /\ pc = "loop"
    /\ parts # <<>>
    /\ LET line == Trim(Head(parts))
           rest == Tail(parts)
           rec  == nrec + 1
           p    == Parse(line)
           tok  == p.ok /\ p.response # <<>>
           a    == Absorb(speechBuffer, p.response)
           sb1  == IF tok THEN a.buffer ELSE speechBuffer
           ch1  == IF tok
                   THEN chan \o <<Event("token", p.response, rec)>>
                             \o Partials(a.groups, rec)
                   ELSE chan
           f    == Flush(sb1)
       IN  /\ parts' = rest
           /\ IF line = <<>>
              THEN /\ pc' = AfterPart(rest)
                   /\ UNCHANGED <<fullReply, speechBuffer, chan, nrec, doneSeen,
                                  flushed>>
              ELSE /\ nrec' = rec
                   /\ IF ~p.ok
                      THEN /\ pc' = InnerCatch(rest)
                           /\ UNCHANGED <<fullReply, speechBuffer, chan, doneSeen,
                                          flushed>>
                      ELSE IF tok /\ chanState = "throws"
                      THEN /\ chan' = Append(chan, Event("token", p.response, rec))
                           /\ pc' = InnerCatch(rest)
                           /\ UNCHANGED <<fullReply, speechBuffer, doneSeen, flushed>>
                      ELSE /\ fullReply' = IF tok THEN fullReply \o p.response
                                                  ELSE fullReply
                           /\ IF p.done
                              THEN /\ chan' = ch1 \o Partials(f.groups, rec)
                                   /\ speechBuffer' = f.buffer
                                   /\ doneSeen' = TRUE
                                   /\ flushed' = TRUE
                                   /\ pc' = "doneCreate"
                              ELSE /\ chan' = ch1
                                   /\ speechBuffer' = sb1
                                   /\ doneSeen' = doneSeen
                                   /\ flushed' = (flushed /\ ~tok)
                                   /\ pc' = AfterPart(rest)
    /\ UNCHANGED <<stream, pos, buffer, db, closed, chanState, yielded, prompt, cause, eof,
                   cacheVars, pairVars>>

\* line 232: await Message.create({ text: fullReply, role: 'assistant' });
\* a rejection is caught by the inner catch and the loop goes on
DoneCreate ==
    /\ pc = "doneCreate"
    /\ \E ok \in CreateOutcomes(fullReply) :
         /\ db' = Append(db, Stored("assistant", fullReply, ok))
         /\ pc' = IF ok THEN "doneWrite" ELSE InnerCatch(parts)
    /\ UNCHANGED <<stream, pos, buffer, parts, fullReply, speechBuffer, chan,
                   closed, chanState, nrec, yielded, doneSeen, prompt, cause, eof, flushed,
                   cacheVars, pairVars>>

\* lines 233-234: res.write({done: true}); return res.end();
\* a throwing write is caught by the inner catch and the loop goes on
DoneWrite ==
    /\ pc = "doneWrite"
    /\ chan' = Append(chan, Event("done", <<>>, nrec))
    /\ IF chanState = "throws"
       THEN pc' = InnerCatch(parts) /\ closed' = closed
       ELSE pc' = "returned" /\ closed' = TRUE
    /\ UNCHANGED <<stream, pos, buffer, parts, fullReply, speechBuffer, db,
                   chanState, nrec, yielded, doneSeen, prompt, cause, eof, flushed,
                   cacheVars, pairVars>>

\* lines 243-270, the body has ended without a done record having returned:
\* the unterminated rest of the buffer is parsed (244-260) and the speech
\* buffer flushed (262-267); the reply is saved next if there is one
EndOfInput ==
    /\ pc = "read"
    /\ pos = Len(stream)
    /\ LET p    == Parse(buffer)
           rec  == IF buffer # <<>> THEN nrec + 1 ELSE nrec
           tok  == buffer # <<>> /\ p.ok /\ p.response # <<>>
           took == tok /\ chanState # "throws"
           ch1  == IF tok THEN Append(chan, Event("token", p.response, rec))
                          ELSE chan
           fr1  == IF took THEN fullReply \o p.response ELSE fullReply
           sb1  == IF took THEN speechBuffer \o p.response ELSE speechBuffer
           f    == Flush(sb1)
       IN  /\ nrec' = rec
           /\ chan' = ch1 \o Partials(f.groups, rec)
           /\ fullReply' = fr1
           /\ speechBuffer' = f.buffer
           /\ pc' = IF fr1 # <<>> THEN "fallbackCreate" ELSE "end"
           /\ eof' = TRUE
           /\ flushed' = TRUE
    /\ UNCHANGED <<stream, pos, buffer, parts, db, closed, chanState, yielded,
                   doneSeen, prompt, cause,
                   cacheVars, pairVars>>

\* res.end() called first and the reply saved after it
FallbackEndThenCreate ==
    /\ pc = "fallbackCreate"
    /\ \/ /\ ~closed
          /\ closed' = TRUE
          /\ UNCHANGED <<pc, db, cause>>
       \/ /\ closed
          /\ \E ok \in CreateOutcomes(fullReply) :
               /\ db' = Append(db, Stored("assistant", fullReply, ok))
               /\ pc' = IF ok THEN "returned" ELSE "catch"
               /\ cause' = IF ok THEN cause ELSE "reply-save"
          /\ closed' = closed
    /\ UNCHANGED <<stream, pos, buffer, parts, fullReply, speechBuffer, chan,
                   chanState, nrec, yielded, doneSeen, prompt, eof, flushed,
                   cacheVars, pairVars>>

\* lines 270-272: await Message.create(...); a rejection throws to the outer
\* catch
FallbackCreate ==
    /\ pc = "fallbackCreate"
    /\ \E ok \in CreateOutcomes(fullReply) :
         /\ db' = Append(db, Stored("assistant", fullReply, ok))
         /\ pc' = IF ok THEN "end" ELSE "catch"
         /\ cause' = IF ok THEN cause ELSE "reply-save"
    /\ UNCHANGED <<stream, pos, buffer, parts, fullReply, speechBuffer, chan,
                   closed, chanState, nrec, yielded, doneSeen, prompt, eof, flushed,
                   cacheVars, pairVars>>

\* line 273: res.end()
End ==
    /\ pc = "end"
    /\ closed' = TRUE
    /\ pc' = "returned"
    /\ UNCHANGED <<stream, pos, buffer, parts, fullReply, speechBuffer, chan, db,
                   chanState, nrec, yielded, doneSeen, prompt, cause, eof, flushed,
                   cacheVars, pairVars>>

\* lines 275-279: res.write({error}); res.end();  a throwing write leaves the
\* handler's promise rejected with the channel still open
Catch ==
    /\ pc = "catch"
    /\ chan' = Append(chan, Event("error", <<>>, nrec))
    /\ IF chanState = "throws"
       THEN pc' = "rejected" /\ closed' = closed
       ELSE pc' = "returned" /\ closed' = TRUE
    /\ UNCHANGED <<stream, pos, buffer, parts, fullReply, speechBuffer, db,
                   chanState, nrec, yielded, doneSeen, prompt, cause, eof, flushed,
                   cacheVars, pairVars>>

\* the client goes away: from then on a write to the channel fails, either
\* by throwing or by being discarded
ClientDisconnect ==
    /\ chanState = "ok"
    /\ pc \notin {"returned", "rejected"}
    /\ chanState' \in {"throws", "drops"}
    /\ UNCHANGED <<pc, stream, pos, buffer, parts, fullReply, speechBuffer, chan,
                   db, closed, nrec, yielded, doneSeen, prompt, cause, eof, flushed,
                   cacheVars, pairVars>>

Next ==
    \/ Start
    \/ SaveUser
    \/ BuildContext
    \/ Fetch
    \/ ReadChunk
    \/ ReadError
    \/ ProcessPart
    \/ DoneCreate
    \/ DoneWrite
    \/ EndOfInput
    \/ FallbackCreate
    \/ End
    \/ Catch
    \/ ClientDisconnect

Spec == Init /\ [][Next]_vars

\* the cache alone, under any calls and any passing of time
CacheNext ==
    \/ ClockAdvance
    \/ \E c \in Callers, k \in Keys : LookupCached(c, k)
    \/ \E c \in Callers, k \in Keys : LookupFetch(c, k)
    \/ \E c \in Callers : LookupSet(c)
    \/ \E c \in Callers : LookupFail(c)

SpecCache == Init /\ [][CacheNext]_vars

\* two runs of the handler, their steps interleaved in any order
PairNext ==
    \E s \in Sessions :
        \/ PairFetch(s)
        \/ PairChunk(s)
        \/ PairEnd(s)
        \/ PairSaved(s)

SpecPair == Init /\ [][PairNext]_vars

-----------------------------------------------------------------------------
(* What the properties talk about *)

\* the handler's promise has settled
Finished == pc \in {"returned", "rejected"}

\* the session got as far as reading the backend's response body
Streamed == Trim(prompt) # <<>> /\ cause \in {"none", "read", "reply-save"}

IsAssistant(m) == m.role = "assistant"
IsSaved(m) == m.role = "assistant" /\ m.ok
AssistantCalls == SelectSeq(db, IsAssistant)
AssistantSaved == SelectSeq(db, IsSaved)

IsTerminal(e) == e.kind \in {"done", "error"}
IsForward(e) == e.kind \in {"token", "sentence_partial"}
IsPartial(e) == e.kind = "sentence_partial"
IsDeliveredForward(e) == IsForward(e) /\ e.ok

\* no collaborator has failed: the client is there, every store call succeeded,
\* nothing threw to the outer catch
Clean ==
    /\ chanState = "ok"
    /\ cause = "none"
    /\ \A i \in DOMAIN db : db[i].ok

\* the words of the sentence_partial events, in emission order
RECURSIVE WordsOfAll(_)
WordsOfAll(es) ==
    IF es = <<>> THEN <<>> ELSE Words(Head(es).text) \o WordsOfAll(Tail(es))

GroupWords == WordsOfAll(SelectSeq(chan, IsPartial))

\* line-terminated records, said without scanning: the k-th record is what
\* lies between the (k-1)-th and the k-th \n, less the \r of a \r\n terminator
Prefix == SubSeq(stream, 1, pos)
NLAt(s) == {i \in 1..Len(s) : s[i] = NL}
KthNL(s, k) == CHOOSE i \in NLAt(s) : Cardinality({j \in NLAt(s) : j <= i}) = k
RecordOf(s, k) ==
    LET lo == IF k = 1 THEN 1 ELSE KthNL(s, k - 1) + 1
        hi == KthNL(s, k) - 1
    IN  SubSeq(s, lo, IF hi >= lo /\ s[hi] = CR THEN hi - 1 ELSE hi)
FragmentOf(s) ==
    LET n == Cardinality(NLAt(s))
    IN  SubSeq(s, IF n = 0 THEN 1 ELSE KthNL(s, n) + 1, Len(s))

-----------------------------------------------------------------------------
(* Properties *)

\* C1: when the handler has finished, the assistant reply has been saved at
\* most once, and Message.create has been called for it if fullReply is not
\* empty -- whichever way the session ended.
C1_PersistExactlyOnce ==
    Finished =>
        /\ Len(AssistantSaved) <= 1
        /\ fullReply # <<>> => Len(AssistantCalls) >= 1

\* C2: a session ended by a failure of the read of the backend stream, with
\* text accumulated in fullReply, has called Message.create with that text.
C2_PartialReplyPersisted ==
    (Finished /\ cause = "read" /\ fullReply # <<>>) =>
        \E i \in DOMAIN db : IsAssistant(db[i]) /\ db[i].text = fullReply

\* C3: when the channel is closed, exactly one terminal event (done or error)
\* has been written to it, and it is the last event written.
C3_OneTerminalEventLast ==
    closed =>
        /\ chan # <<>>
        /\ IsTerminal(chan[Len(chan)])
        /\ Len(SelectSeq(chan, IsTerminal)) = 1

\* C4: a handler that got to read the backend stream and has finished has
\* closed the channel (res.end called).
C4_ClosedWhenFinished == (Finished /\ Streamed) => closed

\* C5: once a terminal event has been delivered, or a done record has been
\* acted on, no token or sentence_partial reaches the channel any more and
\* fullReply no longer grows.
C5_NothingAfterDone ==
    [][ (doneSeen \/ \E i \in DOMAIN chan : IsTerminal(chan[i]) /\ chan[i].ok) =>
          /\ fullReply' = fullReply
          /\ SelectSeq(chan', IsDeliveredForward) = SelectSeq(chan, IsDeliveredForward)
      ]_vars

\* C6: no Message.create for the assistant reply is made once res.end() has
\* been called: the save comes before the close.
C6_PersistBeforeClose == [][closed => AssistantCalls' = AssistantCalls]_vars

C6_Witness ==
    /\ closed
    /\ pc = "returned"
    /\ ~doneSeen
    /\ Len(AssistantSaved) = 1

\* C7: after a write of a token or sentence_partial has failed, no token or
\* sentence_partial write is attempted for a later record, and the finished
\* session has called Message.create with the fullReply it had.
C7_StopAfterWriteFailure ==
    /\ \A i, j \in DOMAIN chan :
          (i < j /\ IsForward(chan[i]) /\ ~chan[i].ok /\ IsForward(chan[j]))
              => chan[j].rec = chan[i].rec
    /\ (Finished /\ fullReply # <<>>
          /\ \E i \in DOMAIN chan : IsForward(chan[i]) /\ ~chan[i].ok) =>
          \E k \in DOMAIN db : IsAssistant(db[k]) /\ db[k].text = fullReply

\* C8: whatever the chunks the bytes arrived in, the parts yielded so far are
\* exactly the line-terminated records of the bytes received, in order and
\* once each, and the buffer is what follows the last terminator.
C8_DecodeExact ==
    /\ Len(yielded) = Cardinality(NLAt(Prefix))
    /\ \A k \in 1..Len(yielded) : yielded[k] = RecordOf(Prefix, k)
    /\ buffer = FragmentOf(Prefix)

\* a chunk has just ended between the \r and the \n of a terminator, with a
\* record yielded before it and the split record held in the buffer
C8_Witness ==
    /\ 0 < pos /\ pos < Len(stream)
    /\ stream[pos] = CR /\ stream[pos + 1] = NL
    /\ Len(yielded) >= 1
    /\ Len(buffer) >= 2

\* C9: in a session that returned with no collaborator failing, the words of
\* the sentence_partial events, in order, are the words of fullReply.
C9_GroupsCarryEveryWord ==
    (pc = "returned" /\ Clean) => GroupWords = Words(fullReply)

\* C10: in a session that returned with no collaborator failing, with W the
\* number of words of fullReply, the sentence_partial events are W div 8
\* groups of 8 words, then one group of W mod 8 words unless that is 0.
C10_GroupSizes ==
    (pc = "returned" /\ Clean) =>
        LET W  == Len(Words(fullReply))
            sp == SelectSeq(chan, IsPartial)
            q  == W \div WORDS_THRESHOLD
            r  == W % WORDS_THRESHOLD
        IN  /\ Len(sp) = q + (IF r = 0 THEN 0 ELSE 1)
            /\ \A k \in 1..Len(sp) :
                  Len(Words(sp[k].text)) = IF k <= q THEN WORDS_THRESHOLD ELSE r

\* the records handled so far, in arrival order: the yielded parts the loop
\* has taken, and the unterminated rest once the end of the body was handled
Received ==
    SubSeq(yielded, 1, Len(yielded) - Len(parts))
        \o (IF eof /\ buffer # <<>> THEN <<buffer>> ELSE <<>>)

\* the response texts of the records that parse, concatenated in order
RECURSIVE ResponsesOf(_)
ResponsesOf(recs) ==
    IF recs = <<>> THEN <<>>
    ELSE Parse(Head(recs)).response \o ResponsesOf(Tail(recs))

\* C11: at every point fullReply is the concatenation, in arrival order, of
\* the response texts of the valid records handled so far, and the text given
\* to Message.create at a done record is that concatenation.
C11_FullReplyIsConcatenation ==
    /\ fullReply = ResponsesOf(Received)
    /\ pc = "doneWrite" => db[Len(db)].text = ResponsesOf(Received)

\* a part the loop does not skip and JSON.parse rejects
Malformed(part) == Trim(part) # <<>> /\ ~Parse(part).ok

\* C12: the step that takes a malformed record off the parts writes nothing
\* to the channel, leaves fullReply, the speech buffer, the store and the
\* done flag as they were, throws nothing to the outer catch and does not
\* close the channel; the loop goes on with the next part, or with the next
\* chunk when there is none.
C12_MalformedIgnored ==
    [][ (pc = "loop" /\ parts # <<>> /\ Malformed(Head(parts))
           /\ parts' = Tail(parts)) =>
          /\ chan' = chan
          /\ fullReply' = fullReply
          /\ speechBuffer' = speechBuffer
          /\ db' = db
          /\ doneSeen' = doneSeen
          /\ closed' = closed
          /\ cause' = cause
          /\ pc' = IF Tail(parts) # <<>> THEN "loop" ELSE "read"
      ]_vars

\* a session whose first record was malformed has forwarded the token of its
\* second record and returned without an error event
C12_Witness ==
    /\ pc = "returned"
    /\ Len(Received) >= 2
    /\ Malformed(Received[1])
    /\ \E i \in DOMAIN chan : chan[i].kind = "token" /\ chan[i].rec = 2
    /\ \A i \in DOMAIN chan : chan[i].kind # "error"

\* C13: a session that read the backend stream, took no token text from it
\* and finished with nothing thrown to the outer catch has made no
\* Message.create call for an assistant message.
C13_NoWriteForEmptyReply ==
    (Finished /\ Streamed /\ cause = "none" /\ fullReply = <<>>) =>
        AssistantCalls = <<>>

IsError(e) == e.kind = "error"

\* C14: a session whose fetch of the backend failed (connection refused, or a
\* non-success status) has, once finished, written no token and no
\* sentence_partial event, written one error event, closed the channel, and
\* made no Message.create call for an assistant message.
C14_BackendFailure ==
    (Finished /\ cause = "fetch") =>
        /\ SelectSeq(chan, IsForward) = <<>>
        /\ Len(SelectSeq(chan, IsError)) = 1
        /\ closed
        /\ AssistantCalls = <<>>

\* t is what s ends with
EndsWith(s, t) ==
    Len(t) <= Len(s) /\ SubSeq(s, Len(s) - Len(t) + 1, Len(s)) = t

\* the characters of s that are not white space
Solid(s) == Concat(Words(s))

\* the record whose done branch is being run
DoneRecord == Parse(Received[Len(Received)])

FlushStep ==
    \/ pc = "loop" /\ pc' = "doneCreate"
    \/ ~eof /\ eof'

\* C17: a flush that runs when the buffer has been flushed before and no token
\* has been added to it since, in this step or earlier, writes no
\* sentence_partial event.
C17_FlushIdempotent ==
    [][ (flushed /\ FlushStep /\ fullReply' = fullReply) =>
          SelectSeq(chan', IsPartial) = SelectSeq(chan, IsPartial)
      ]_vars

\* the done flush wrote the one group of the session, the save was rejected,
\* and the flush at the end of the body has run after it with nothing added
C17_Witness ==
    /\ eof
    /\ doneSeen
    /\ buffer = <<>>
    /\ DoneRecord.done
    /\ DoneRecord.response # <<>>
    /\ Len(SelectSeq(chan, IsPartial)) = 1

IsToken(e) == e.kind = "token"

\* the body ends, no done record having been acted on, with an unterminated
\* rest in the decode buffer
TailStep == ~eof /\ eof' /\ ~doneSeen /\ buffer # <<>>

\* C20: when the body ends with an unterminated rest that parses with a
\* response text, the step writes a token event with that text, appends it to
\* fullReply, and writes after the token a sentence_partial that ends with
\* it, and the Message.create that follows is given that fullReply; when the
\* rest does not parse, no token is written, fullReply stays, and only the
\* words already waiting in the speech buffer are flushed.
C20_TrailingFragment ==
    [][ /\ TailStep =>
             IF Parse(buffer).response # <<>>
             THEN /\ fullReply' = fullReply \o Parse(buffer).response
                  /\ Len(chan') = Len(chan) + 2
                  /\ SubSeq(chan', 1, Len(chan)) = chan
                  /\ IsToken(chan'[Len(chan) + 1])
                  /\ chan'[Len(chan) + 1].text = Parse(buffer).response
                  /\ IsPartial(chan'[Len(chan) + 2])
                  /\ EndsWith(Solid(chan'[Len(chan) + 2].text),
                              Solid(Parse(buffer).response))
                  /\ pc' = "fallbackCreate"
             ELSE /\ fullReply' = fullReply
                  /\ SelectSeq(chan', IsToken) = SelectSeq(chan, IsToken)
                  /\ WordsOfAll(SelectSeq(chan', IsPartial))
                       = WordsOfAll(SelectSeq(chan, IsPartial)) \o Words(speechBuffer)
        /\ (eof /\ ~doneSeen /\ pc = "fallbackCreate" /\ pc' # pc) =>
             /\ db' = Append(db, db'[Len(db')])
             /\ IsAssistant(db'[Len(db')])
             /\ db'[Len(db')].text = fullReply
      ]_vars

\* call c takes its key and the time in this step
CallBegins(c) ==
    /\ calls[c].st # "fetching"
    /\ calls'[c] # calls[c]

\* C19: a call returns the cached entry only when the entry was less than
\* 5 minutes old at the time the call took; a call that finds no entry, or one
\* whose age has reached 5 minutes, goes to fetch; and a fetch that succeeds
\* puts under the key an entry whose lastUpdated is the time the call took,
\* which is 5 minutes or more after the lastUpdated of the entry it had found.
C19_CacheStaleness ==
    [][ \A c \in Callers :
          /\ calls'[c].kind = "cached" =>
                /\ calls'[c].out # NoEntry
                /\ calls'[c].now - calls'[c].out.lastUpdated < 300000
          /\ CallBegins(c) =>
                LET cached == locationCache[calls'[c].key]
                IN  (cached = NoEntry \/ clock - cached.lastUpdated >= 300000)
                        => calls'[c].st = "fetching"
          /\ (calls[c].st = "fetching" /\ calls'[c].kind = "fresh") =>
                /\ locationCache'[calls[c].key].lastUpdated = calls[c].now
                /\ calls'[c].out = locationCache'[calls[c].key]
                /\ calls[c].seen # NoEntry =>
                      calls[c].now >= calls[c].seen.lastUpdated + 300000
      ]_vars

\* one call has been answered from the cache, and another has replaced the
\* entry it found when the entry was exactly 5 minutes old
C19_Witness ==
    \E c, d \in Callers :
        /\ calls[c].kind = "cached"
        /\ calls[d].kind = "fresh"
        /\ calls[d].seen # NoEntry
        /\ calls[d].now = calls[d].seen.lastUpdated + STALE_MS
        /\ locationCache[calls[d].key].lastUpdated = calls[d].now

\* what a run in the place x.pc, x.pos bytes of its body x.stream having
\* arrived, has in its variables, has written and has given to Message.create
\* when it is the only run there is and the bytes came in one chunk
Alone(s, x) ==
    LET r  == HandleChunk(NewCell, SubSeq(x.stream, 1, x.pos))
        e  == HandleEnd(r.cell)
        viaDone == x.pc = "doneCreate" \/ (x.pc = "returned" /\ r.done)
        viaEnd  == x.pc = "fallbackCreate" \/ (x.pc = "returned" /\ ~r.done)
        cell == IF viaEnd THEN e.cell ELSE r.cell
    IN  [cell  |-> cell,
         chan  |-> r.events
                     \o (IF viaEnd THEN e.events ELSE <<>>)
                     \o (IF x.pc = "returned" /\ r.done
                         THEN <<PEvent("done", <<>>)>> ELSE <<>>),
         saved |-> IF (viaDone \/ viaEnd) /\ cell.fullReply # <<>>
                   THEN <<[session |-> s, text |-> cell.fullReply]>>
                   ELSE <<>>]

\* C18: whatever the order in which the chunks of two sessions arrive, each
\* session's buffer, fullReply and speechBuffer, the events it has written and
\* the reply it has given to Message.create are those of a session running
\* alone on the bytes of its own body received so far.
C18_SessionsIndependent ==
    \A s \in Sessions :
        /\ cells[Scope(s)] = Alone(s, ses[s]).cell
        /\ ses[s].chan = Alone(s, ses[s]).chan
        /\ SelectSeq(store, LAMBDA m : m.session = s) = Alone(s, ses[s]).saved

\* both sessions are in the middle of their bodies, each has written events,
\* and each holds back an unterminated rest of its own
C18_Witness ==
    /\ ses[1].pc = "read" /\ ses[2].pc = "read"
    /\ ses[1].chan # <<>> /\ ses[2].chan # <<>>
    /\ cells[1].buffer # <<>> /\ cells[2].buffer # <<>>
    /\ cells[1].buffer # cells[2].buffer

\* t is what s starts with
StartsWith(s, t) == Len(t) <= Len(s) /\ SubSeq(s, 1, Len(t)) = t

\* the words written so far in token events, in order
TokenWords == WordsOfAll(SelectSeq(chan, IsToken))

\* C21: at every point the words written so far in sentence_partial events
\* are, in order, the first of the words written so far in token events, and
\* a group of WORDS_THRESHOLD words comes after the token event of the record
\* that completed it.
C21_GroupsAfterTokens ==
    /\ StartsWith(TokenWords, GroupWords)
    /\ \A j \in DOMAIN chan :
          (IsPartial(chan[j]) /\ Len(Words(chan[j].text)) = WORDS_THRESHOLD) =>
              \E i \in 1..(j - 1) : IsToken(chan[i]) /\ chan[i].rec = chan[j].rec

\* C22: a request whose prompt is missing, empty or white space only never
\* gets past the guard: nothing is given to Message.create, the backend is
\* not fetched, and once the handler has acted one error event has been
\* written, nothing else, and the channel is closed.
C22_EmptyPromptRejected ==
    Trim(prompt) = <<>> =>
        /\ pc \in {"start", "returned", "rejected"}
        /\ db = <<>>
        /\ stream = <<>> /\ pos = 0 /\ ~eof
        /\ pc # "start" =>
              /\ Len(chan) = 1
              /\ IsError(chan[1])
              /\ closed

====
